---- MODULE Spec2Model ----
(***************************************************************************)
(* Model of the auto-tiling layout engine of imacon (engine.go).           *)
(*                                                                         *)
(* Sizes are exact numbers: a float64 of the source is modelled by an      *)
(* integer, and the inputs are chosen so that every division of the        *)
(* source is exact.  The score area*ar of Pane.Shape is kept as an exact   *)
(* fraction; 0*Inf and 0/0 are NaN, for which every comparison is false.   *)
(* A text is the sequence of the widths of its words; the text-measurement *)
(* collaborator (gg) measures a line as the sum of its words plus one      *)
(* SpaceW between two words.                                               *)
(***************************************************************************)
EXTENDS Integers, Sequences, FiniteSets, TLC

VARIABLES panes,     \* PaneId -> Pane struct (Objects, PlannedShape, ColWidth, ColPad, RowPad)
          ctx,       \* the drawing context: transform stack, current transform, drawn primitives
          err,       \* "none", or how the process ended: "panic" / "overflow"
          runs,      \* history: PaneId -> number of times Pane.Shape ran
          mode,      \* history: PaneId -> constructor used ("NewPane" / "NewPaneWithShape")
          supplied,  \* history: PaneId -> the Shape handed to NewPaneWithShape
          first,     \* history: PaneId -> result of the first IntrinsicSize call
          placed,    \* history: the (pane, column, row, tile) visits of the last call
          last,      \* history: the last call and what it returned
          canvas,    \* the Canvas the last call returned, when it was Render
          leaf       \* the leaf tile the last constructor call returned, and its error

vars == <<panes, ctx, err, runs, mode, supplied, first, placed, last, canvas, leaf>>

-----------------------------------------------------------------------------
(* Program constants *)

DefaultOuterPad == 24
DefaultMinPad == 12
DefaultLabelPad == 3
DefaultColWidth == 720
DefaultColPad == 24
\* DefaultLineSpacing = 1.5 as a fraction
DefaultLineSpacingNum == 3
DefaultLineSpacingDen == 2
\* math.MaxFloat64: larger than every size and score of the model
MaxFloat64 == 2000000000

(* Bounds of the model *)

MaxTiles == 3        \* tiles in a Pane built with NewPane
MaxCols == 2         \* columns of a caller-supplied Shape
MaxColTiles == 2     \* tiles in one column of a caller-supplied Shape
MaxDepth == 3        \* nesting depth of IntrinsicSize / Draw calls that is followed
MaxRuns == 3         \* cap of the run counter of the Shape search
MaxPixels == 3       \* width and height of a decoded image
MaxWords == 2        \* words of a text handed to a leaf constructor
MaxWordW == 3        \* measured width of one word
MaxConstraint == 4   \* constraint width and height handed to a leaf tile
FontHeight == 2      \* ctx.FontHeight() of the configured font face
SpaceW == 1          \* measured width of one space

PaneIds == {1, 2}

-----------------------------------------------------------------------------
(* Numbers *)

Max(a, b) == IF a >= b THEN a ELSE b
Min(a, b) == IF a <= b THEN a ELSE b

RECURSIVE Gcd(_, _)
Gcd(a, b) == IF b = 0 THEN a ELSE Gcd(b, a % b)

\* a fraction num/den (den > 0), or NaN
Rat(n, d) == [nan |-> FALSE, num |-> n, den |-> d]
NaN == [nan |-> TRUE, num |-> 0, den |-> 1]

\* x < y on float64 values: false when either side is NaN
RatLess(x, y) == /\ ~x.nan
                 /\ ~y.nan
                 /\ x.num * y.den < y.num * x.den

\* x * y, reduced before multiplying
RatMul(x, y) ==
    IF x.nan \/ y.nan THEN NaN
    ELSE LET g1 == Gcd(x.num, y.den)
             g2 == Gcd(y.num, x.den)
         IN  Rat((x.num \div g1) * (y.num \div g2), (x.den \div g2) * (y.den \div g1))

RatMax(x, y) == IF RatLess(x, y) THEN y ELSE x

\* math.Min
RatMin(x, y) == IF RatLess(y, x) THEN y ELSE x

\* x + y
RatAdd(x, y) ==
    IF x.nan \/ y.nan THEN NaN
    ELSE Rat(x.num * y.den + y.num * x.den, x.den * y.den)

\* int(x): the conversion of a float64 to int drops the fraction (toward zero)
ToInt(x) == IF x.num >= 0 THEN x.num \div x.den ELSE -((-x.num) \div x.den)

-----------------------------------------------------------------------------
(* Tiles *)

NewTextBlock(text, wrap) == [kind |-> "text", Text |-> text, TextWrap |-> wrap]

\* an ImageBlock of a decoded image of w x h pixels
ImageBlock(w, h, label) ==
    [kind |-> "image", W |-> w, H |-> h, Label |-> NewTextBlock(label, TRUE)]

PaneRef(id) == [kind |-> "pane", id |-> id]

TileProxy(obj, w, h) ==
    [kind |-> "proxy", Object |-> obj, Size |-> [Width |-> w, Height |-> h]]

Column(objs) == [Objects |-> objs]

NilShape == [isNil |-> TRUE, Columns |-> <<>>]
NewShapeWithObjects(columns) == [isNil |-> FALSE, Columns |-> columns]
NewShape(colCount) == NewShapeWithObjects([i \in 1..colCount |-> Column(<<>>)])

-----------------------------------------------------------------------------
(* Text measurement (the gg collaborator) *)

RECURSIVE SumSeq(_)
SumSeq(s) == IF s = <<>> THEN 0 ELSE Head(s) + SumSeq(Tail(s))

\* ctx.MeasureString of a line holding the words ws, one space between two
MeasureString(ws) == IF ws = <<>> THEN 0 ELSE SumSeq(ws) + (Len(ws) - 1) * SpaceW

\* ctx.WordWrap: words are added to the line x while x plus the next word
\* fits; a word that does not fit closes the line (or, on an empty line, is
\* a line of its own) and is never split
RECURSIVE WordWrapFrom(_, _, _, _, _)
WordWrapFrom(words, i, x, width, result) ==
    IF i > Len(words)
    THEN IF x # <<>> THEN Append(result, x) ELSE result
    ELSE LET wd == words[i]
             w  == MeasureString(Append(x, wd))
         IN  IF w > width
             THEN IF x = <<>>
                  THEN WordWrapFrom(words, i + 1, <<>>, width, Append(result, <<wd>>))
                  ELSE WordWrapFrom(words, i + 1, <<wd>>, width, Append(result, x))
             ELSE WordWrapFrom(words, i + 1, Append(x, wd), width, result)

WordWrap(words, width) == WordWrapFrom(words, 1, <<>>, width, <<>>)

RECURSIVE MaxLineWidth(_)
MaxLineWidth(lines) ==
    IF lines = <<>> THEN 0 ELSE Max(MeasureString(Head(lines)), MaxLineWidth(Tail(lines)))

\* n lines of text at DefaultLineSpacing
LinesHeight(n) == (n * FontHeight * DefaultLineSpacingNum) \div DefaultLineSpacingDen

\* ctx.MeasureMultilineString of a text without line breaks: one line, whose
\* height is the line height less the spacing above the first line
MeasureMultilineString(words) ==
    [w |-> MeasureString(words),
     h |-> LinesHeight(1) - ((DefaultLineSpacingNum - DefaultLineSpacingDen) * FontHeight)
                               \div DefaultLineSpacingDen]

TextBlockIntrinsicSize(t, expectedWidth, expectedHeight) ==
    IF expectedWidth = 0
    THEN MeasureMultilineString(t.Text)
    ELSE LET lines == WordWrap(t.Text, expectedWidth)
         IN  [w |-> MaxLineWidth(lines), h |-> LinesHeight(Len(lines))]

ImageBlockIntrinsicSize(i, expectedWidth0, expectedHeight) ==
    LET w == i.W
        h == i.H
        expectedWidth == IF expectedWidth0 = 0 /\ expectedHeight = 0 THEN w ELSE expectedWidth0
    IN  IF expectedWidth # 0 /\ expectedHeight = 0
        THEN LET ew == IF expectedWidth > w THEN w ELSE expectedWidth
                 \* h*scale with scale = 1.0 or expectedWidth/w
                 sh == IF expectedWidth > w THEN h ELSE (h * expectedWidth) \div w
                 th == TextBlockIntrinsicSize(i.Label, ew, 0).h
             IN  [w |-> ew, h |-> sh + th + DefaultLabelPad]
        ELSE IF expectedWidth = 0 /\ expectedHeight # 0
        THEN LET newWidth == (w * expectedHeight) \div h
                 th == TextBlockIntrinsicSize(i.Label, newWidth, 0).h
             IN  [w |-> newWidth, h |-> expectedHeight + th + DefaultLabelPad]
        ELSE \* scale = min(expectedWidth/w, expectedHeight/h)
             LET byW == expectedWidth * h <= expectedHeight * w
                 newWidth == IF byW THEN expectedWidth ELSE (w * expectedHeight) \div h
                 sh == IF byW THEN (h * expectedWidth) \div w ELSE expectedHeight
                 th == TextBlockIntrinsicSize(i.Label, newWidth, 0).h
             IN  [w |-> newWidth, h |-> sh + th + DefaultLabelPad]

TileProxyIntrinsicSize(t, expectedWidth, expectedHeight) ==
    [w |-> t.Size.Width, h |-> t.Size.Height]

-----------------------------------------------------------------------------
(* Calls that reach a Pane read and write the Panes: they take the state   *)
(* st = [panes, runs, err, ctx, placed] and return the state they leave.   *)
(* fuel is the call depth still followed; a call chain that is deeper      *)
(* never returns (the goroutine stack overflows).  The result of a call is *)
(* handed to the operator that models the statements after the call.       *)

Res(w, h, st) == [w |-> w, h |-> h, st |-> st]

\* the size r of a tile that does not touch the state
Pure(r, st) == Res(r.w, r.h, st)

Fail(st, how) == [st EXCEPT !.err = IF st.err = "none" THEN how ELSE @]

Bump(n) == IF n < MaxRuns THEN n + 1 ELSE n

RECURSIVE TileIntrinsicSize(_, _, _, _, _)
RECURSIVE ColumnHeightFrom(_, _, _, _, _, _)
RECURSIVE MinHeightColFrom(_, _, _, _, _, _, _, _)
RECURSIVE deriveShapeFrom(_, _, _, _, _, _, _)
RECURSIVE MaxHFrom(_, _, _, _, _, _, _)
RECURSIVE ProxiesFrom(_, _, _, _, _, _)
RECURSIVE ShapeLoop(_, _, _, _, _, _, _)
RECURSIVE PaneIntrinsicSize(_, _, _, _, _)

\* Column.Height, loop body: totalH += h, for the measured size r of tile i
ColumnHeightAdd(r, c, i, totalH, colWidth, fuel) ==
    ColumnHeightFrom(c, i + 1, totalH + r.h, colWidth, r.st, fuel)

\* Column.Height: the loop over c.Objects from tile i on
ColumnHeightFrom(c, i, totalH, colWidth, st, fuel) ==
    IF i > Len(c.Objects)
    THEN [h |-> totalH, st |-> st]
    ELSE ColumnHeightAdd(TileIntrinsicSize(c.Objects[i], colWidth, 0, st, fuel),
                         c, i, totalH, colWidth, fuel)

\* Column.Height: totalH += rowPad * float64(len(c.Objects)-1)
ColumnHeightPad(r, n, rowPad) == [h |-> r.h + rowPad * (n - 1), st |-> r.st]

ColumnHeight(c, colWidth, rowPad, st, fuel) ==
    ColumnHeightPad(ColumnHeightFrom(c, 1, 0, colWidth, st, fuel), Len(c.Objects), rowPad)

\* variant: the scan keeps the last of the columns of smallest height (h <= minHeight)
MinHeightColKeepLE(r, columns, colIndex, minHeight, minHeightCol, colWidth, rowPad, fuel) ==
    IF r.h <= minHeight
    THEN MinHeightColFrom(columns, colIndex + 1, r.h, colIndex, colWidth, rowPad, r.st, fuel)
    ELSE MinHeightColFrom(columns, colIndex + 1, minHeight, minHeightCol, colWidth, rowPad, r.st, fuel)

\* deriveShape, inner loop body: if h < minHeight, for the height r of the column
MinHeightColKeep(r, columns, colIndex, minHeight, minHeightCol, colWidth, rowPad, fuel) ==
    IF r.h < minHeight
    THEN MinHeightColFrom(columns, colIndex + 1, r.h, colIndex, colWidth, rowPad, r.st, fuel)
    ELSE MinHeightColFrom(columns, colIndex + 1, minHeight, minHeightCol, colWidth, rowPad, r.st, fuel)

\* deriveShape: the inner loop, the scan of the columns from colIndex on
MinHeightColFrom(columns, colIndex, minHeight, minHeightCol, colWidth, rowPad, st, fuel) ==
    IF colIndex > Len(columns)
    THEN [col |-> minHeightCol, st |-> st]
    ELSE MinHeightColKeep(ColumnHeight(columns[colIndex], colWidth, rowPad, st, fuel),
                          columns, colIndex, minHeight, minHeightCol, colWidth, rowPad, fuel)

\* variant: the tile is put in front of the tiles of the column
PlaceAtFront(m, columns, tile) ==
    IF Len(columns) = 0
    THEN [columns |-> columns, st |-> Fail(m.st, "panic")]
    ELSE [columns |-> [columns EXCEPT ![m.col].Objects = <<tile>> \o @], st |-> m.st]

\* deriveShape: the append to the column m the scan found; s.Columns[0] of a
\* Shape without columns panics
PlaceAt(m, columns, tile) ==
    IF Len(columns) = 0
    THEN [columns |-> columns, st |-> Fail(m.st, "panic")]
    ELSE [columns |-> [columns EXCEPT ![m.col].Objects = Append(@, tile)], st |-> m.st]

\* variant: every tile goes to the first column, whatever the scan finds
PlaceTileFirstColumn(columns, tile, colWidth, rowPad, st, fuel) ==
    PlaceAt([col |-> 1,
             st |-> MinHeightColFrom(columns, 1, MaxFloat64, 1, colWidth, rowPad, st, fuel).st],
            columns, tile)

\* deriveShape: one pass of the outer loop
PlaceTile(columns, tile, colWidth, rowPad, st, fuel) ==
    PlaceAt(MinHeightColFrom(columns, 1, MaxFloat64, 1, colWidth, rowPad, st, fuel),
            columns, tile)

deriveShapeNext(r, t, k, colWidth, rowPad, fuel) ==
    deriveShapeFrom(r.columns, t, k + 1, colWidth, rowPad, r.st, fuel)

\* deriveShape: the outer loop over the tiles from tile k on
deriveShapeFrom(columns, t, k, colWidth, rowPad, st, fuel) ==
    IF k > Len(t) \/ st.err # "none"
    THEN [columns |-> columns, st |-> st]
    ELSE deriveShapeNext(PlaceTile(columns, t[k], colWidth, rowPad, st, fuel),
                         t, k, colWidth, rowPad, fuel)

Derived(r) == [shape |-> NewShapeWithObjects(r.columns), st |-> r.st]

deriveShape(s, t, colWidth, rowPad, st, fuel) ==
    Derived(deriveShapeFrom(s.Columns, t, 1, colWidth, rowPad, st, fuel))

\* canvasSize, loop body: if h > maxH, for the height r of the column
MaxHKeep(r, columns, colIndex, maxH, colWidth, rowPad, fuel) ==
    MaxHFrom(columns, colIndex + 1, IF r.h > maxH THEN r.h ELSE maxH,
             colWidth, rowPad, r.st, fuel)

\* canvasSize: the loop over the columns from colIndex on
MaxHFrom(columns, colIndex, maxH, colWidth, rowPad, st, fuel) ==
    IF colIndex > Len(columns)
    THEN [h |-> maxH, st |-> st]
    ELSE MaxHKeep(ColumnHeight(columns[colIndex], colWidth, rowPad, st, fuel),
                  columns, colIndex, maxH, colWidth, rowPad, fuel)

\* variant: one column pad is counted for every column
canvasTotalPadEach(r, colCount, colWidth, colPad) ==
    Res(colCount * colWidth + colCount * colPad, r.h, r.st)

\* canvasSize: totalW and the result, for the maximum r of the loop
canvasTotal(r, colCount, colWidth, colPad) ==
    Res(colCount * colWidth + (colCount - 1) * colPad, r.h, r.st)

canvasSize(shape, colWidth, colPad, rowPad, st, fuel) ==
    canvasTotal(MaxHFrom(shape.Columns, 1, 0, colWidth, rowPad, st, fuel),
                Len(shape.Columns), colWidth, colPad)

\* area * ar of Pane.Shape; w/h or h/w is +Inf when a side is 0, the area
\* is then 0, and 0 * Inf is NaN
Score(w, h) ==
    IF w = 0 \/ h = 0
    THEN NaN
    ELSE RatMul(Rat(w * h, 1), RatMax(Rat(w, h), Rat(h, w)))

ProxiesAdd(r, objects, i, proxies, colWidth, fuel) ==
    ProxiesFrom(objects, i + 1, Append(proxies, TileProxy(objects[i], r.w, r.h)),
                colWidth, r.st, fuel)

\* Pane.Shape: the proxies, built in the order of p.Objects from tile i on
ProxiesFrom(objects, i, proxies, colWidth, st, fuel) ==
    IF i > Len(objects)
    THEN [proxies |-> proxies, st |-> st]
    ELSE ProxiesAdd(TileIntrinsicSize(objects[i], colWidth, 0, st, fuel),
                    objects, i, proxies, colWidth, fuel)

NoBest == [found |-> FALSE, shape |-> NilShape, size |-> [Width |-> 0, Height |-> 0],
           areaDotAr |-> Rat(MaxFloat64, 1)]

Sized(c, shape) == [shape |-> shape, w |-> c.w, h |-> c.h, st |-> c.st]

\* Pane.Shape, loop body: w, h := canvasSize(ctx, s, ...) of the derived Shape d
CandidateSize(d, p, fuel) ==
    Sized(canvasSize(d.shape, p.ColWidth, p.ColPad, p.RowPad, d.st, fuel), d.shape)

\* variant: the Shape of a candidate has one column too many
CandidateOneMore(p, proxies, colCount, st, fuel) ==
    CandidateSize(deriveShape(NewShape(colCount + 1), proxies, p.ColWidth, p.RowPad, st, fuel),
                  p, fuel)

\* Pane.Shape, loop body: the candidate Shape of one column count and its size
Candidate(p, proxies, colCount, st, fuel) ==
    CandidateSize(deriveShape(NewShape(colCount), proxies, p.ColWidth, p.RowPad, st, fuel),
                  p, fuel)

\* variant: a candidate of equal score replaces the best (area*ar <= areaDotAr)
BetterOrEqual(score, areaDotAr) ==
    /\ ~score.nan
    /\ ~areaDotAr.nan
    /\ score.num * areaDotAr.den <= areaDotAr.num * score.den

\* Pane.Shape: area*ar < areaDotAr
Better(score, areaDotAr) == RatLess(score, areaDotAr)

\* Pane.Shape, loop body: the candidate c replaces the best when it scores less
ShapeLoopKeep(c, p, proxies, colCount, maxCol, best, fuel) ==
    IF Better(Score(c.w, c.h), best.areaDotAr)
    THEN ShapeLoop(p, proxies, colCount + 1, maxCol,
                   [found |-> TRUE, shape |-> c.shape,
                    size |-> [Width |-> c.w, Height |-> c.h],
                    areaDotAr |-> Score(c.w, c.h)], c.st, fuel)
    ELSE ShapeLoop(p, proxies, colCount + 1, maxCol, best, c.st, fuel)

\* Pane.Shape: the loop over the column counts from colCount on
ShapeLoop(p, proxies, colCount, maxCol, best, st, fuel) ==
    IF colCount > maxCol
    THEN [best |-> best, st |-> st]
    ELSE ShapeLoopKeep(Candidate(p, proxies, colCount, st, fuel),
                       p, proxies, colCount, maxCol, best, fuel)

\* Pane.Shape: return *bestShape, bestSize; a nil bestShape panics
ShapeReturn(r) ==
    IF r.st.err # "none"
    THEN [shape |-> NilShape, size |-> NoBest.size, st |-> r.st]
    ELSE IF ~r.best.found
    THEN [shape |-> NilShape, size |-> NoBest.size, st |-> Fail(r.st, "panic")]
    ELSE [shape |-> r.best.shape, size |-> r.best.size, st |-> r.st]

\* Pane.Shape: the search, once the proxies pr are built
ShapeSearch(pr, p, fuel) ==
    ShapeReturn(ShapeLoop(p, pr.proxies, 1, Len(p.Objects), NoBest, pr.st, fuel))

\* Pane.Shape
PaneShape(id, st, fuel) ==
    ShapeSearch(ProxiesFrom(st.panes[id].Objects, 1, <<>>, st.panes[id].ColWidth,
                            [st EXCEPT !.runs[id] = Bump(@)], fuel),
                st.panes[id], fuel)

\* variant: the tiles move from the Pane's list into the stored Shape
StoreShapeTakingTiles(r, id) ==
    [r.st EXCEPT !.panes[id].PlannedShape = r.shape, !.panes[id].Objects = <<>>]

\* Pane.IntrinsicSize / Pane.Draw: p.PlannedShape = &shape
StoreShape(r, id) == [r.st EXCEPT !.panes[id].PlannedShape = r.shape]

\* Pane.IntrinsicSize, else branch after the search returned r
SizeOfSearch(r, id) ==
    IF r.st.err # "none"
    THEN Res(0, 0, r.st)
    ELSE Res(r.size.Width, r.size.Height, StoreShape(r, id))

\* variant: every call runs the search, whether a Shape is stored or not
PaneIntrinsicSizeAlways(id, expectedWidth, expectedHeight, st, fuel) ==
    IF st.err # "none" THEN Res(0, 0, st)
    ELSE IF fuel = 0 THEN Res(0, 0, Fail(st, "overflow"))
    ELSE SizeOfSearch(PaneShape(id, st, fuel - 1), id)

\* variant: the size of a stored Shape is computed with the row pad of DrawShape
PaneIntrinsicSizeMinPad(id, expectedWidth, expectedHeight, st, fuel) ==
    IF st.err # "none" THEN Res(0, 0, st)
    ELSE IF fuel = 0 THEN Res(0, 0, Fail(st, "overflow"))
    ELSE IF ~st.panes[id].PlannedShape.isNil
    THEN canvasSize(st.panes[id].PlannedShape, st.panes[id].ColWidth, st.panes[id].ColPad,
                    DefaultMinPad, st, fuel - 1)
    ELSE SizeOfSearch(PaneShape(id, st, fuel - 1), id)

\* variant: a constraint width, when given, is the column width of the search
PaneIntrinsicSizeConstrained(id, expectedWidth, expectedHeight, st, fuel) ==
    IF st.err # "none" THEN Res(0, 0, st)
    ELSE IF fuel = 0 THEN Res(0, 0, Fail(st, "overflow"))
    ELSE IF ~st.panes[id].PlannedShape.isNil
    THEN canvasSize(st.panes[id].PlannedShape, st.panes[id].ColWidth, st.panes[id].ColPad,
                    st.panes[id].RowPad, st, fuel - 1)
    ELSE LET r == SizeOfSearch(PaneShape(id,
                                         [st EXCEPT !.panes[id].ColWidth =
                                             IF expectedWidth # 0 THEN expectedWidth ELSE @],
                                         fuel - 1), id)
         IN  Res(r.w, r.h, [r.st EXCEPT !.panes[id].ColWidth = st.panes[id].ColWidth])

PaneIntrinsicSize(id, expectedWidth, expectedHeight, st, fuel) ==
    IF st.err # "none" THEN Res(0, 0, st)
    ELSE IF fuel = 0 THEN Res(0, 0, Fail(st, "overflow"))
    ELSE IF ~st.panes[id].PlannedShape.isNil
    THEN canvasSize(st.panes[id].PlannedShape, st.panes[id].ColWidth, st.panes[id].ColPad,
                    st.panes[id].RowPad, st, fuel - 1)
    ELSE SizeOfSearch(PaneShape(id, st, fuel - 1), id)

\* variant: a nested Pane is not measured and counts as a tile of no size
TileIntrinsicSizeFlat(t, expectedWidth, expectedHeight, st, fuel) ==
    IF st.err # "none" THEN Res(0, 0, st)
    ELSE CASE t.kind = "text" ->
                Pure(TextBlockIntrinsicSize(t, expectedWidth, expectedHeight), st)
           [] t.kind = "image" ->
                Pure(ImageBlockIntrinsicSize(t, expectedWidth, expectedHeight), st)
           [] t.kind = "proxy" ->
                Pure(TileProxyIntrinsicSize(t, expectedWidth, expectedHeight), st)
           [] t.kind = "pane" -> Res(0, 0, st)

\* dispatch of the Tileable interface
TileIntrinsicSize(t, expectedWidth, expectedHeight, st, fuel) ==
    IF st.err # "none" THEN Res(0, 0, st)
    ELSE CASE t.kind = "text" ->
                Pure(TextBlockIntrinsicSize(t, expectedWidth, expectedHeight), st)
           [] t.kind = "image" ->
                Pure(ImageBlockIntrinsicSize(t, expectedWidth, expectedHeight), st)
           [] t.kind = "proxy" ->
                Pure(TileProxyIntrinsicSize(t, expectedWidth, expectedHeight), st)
           [] t.kind = "pane" ->
                PaneIntrinsicSize(t.id, expectedWidth, expectedHeight, st, fuel)

-----------------------------------------------------------------------------
(* Drawing.  The context keeps the current transform (a translation and a  *)
(* scale sn/sd), the stack of saved transforms and the primitives drawn.   *)

Identity == [x |-> 0, y |-> 0, sn |-> 1, sd |-> 1]
NewContext == [stack |-> <<>>, cur |-> Identity, ops |-> <<>>]

CtxPush(st) == [st EXCEPT !.ctx.stack = Append(@, st.ctx.cur)]

\* Pop of an empty stack indexes out of range
CtxPop(st) ==
    IF st.err # "none" THEN st
    ELSE IF st.ctx.stack = <<>> THEN Fail(st, "panic")
    ELSE [st EXCEPT !.ctx.cur = st.ctx.stack[Len(st.ctx.stack)],
                    !.ctx.stack = SubSeq(@, 1, Len(@) - 1)]

CtxTranslate(st, dx, dy) ==
    [st EXCEPT !.ctx.cur.x = @ + (dx * st.ctx.cur.sn) \div st.ctx.cur.sd,
               !.ctx.cur.y = @ + (dy * st.ctx.cur.sn) \div st.ctx.cur.sd]

\* Scale by the fraction n/d
CtxScale(st, n, d) ==
    [st EXCEPT !.ctx.cur.sn = (@ * n) \div Gcd(st.ctx.cur.sn * n, st.ctx.cur.sd * d),
               !.ctx.cur.sd = (@ * d) \div Gcd(st.ctx.cur.sn * n, st.ctx.cur.sd * d)]

CtxDrawOp(st, what, tile, width) ==
    [st EXCEPT !.ctx.ops = Append(@, [op |-> what, tile |-> tile, width |-> width,
                                      at |-> st.ctx.cur, depth |-> Len(st.ctx.stack)])]

TextBlockDraw(t, cw, ch, st) ==
    IF t.TextWrap = FALSE
    THEN CtxDrawOp(st, "DrawStringAnchored", t, 0)
    ELSE CtxDrawOp(st, "DrawStringWrapped", t, cw)

\* ImageBlock.Draw: the image, drawn between the second Push and the first Pop
ImageBlockDrawImage(i, cw, st) ==
    CtxPop(CtxDrawOp(IF i.W > cw THEN CtxScale(st, cw, i.W) ELSE st,
                     "DrawImageAnchored", i, 0))

\* variant: the label is drawn and the outer Push is left without its Pop
ImageBlockDrawLabelNoPop(i, cw, ch, imageHeight, st) ==
    TextBlockDraw(i.Label, cw, ch - imageHeight - DefaultLabelPad,
                  CtxTranslate(st, 0, imageHeight + DefaultLabelPad))

\* ImageBlock.Draw: the label below the image of height imageHeight
ImageBlockDrawLabel(i, cw, ch, imageHeight, st) ==
    CtxPop(TextBlockDraw(i.Label, cw, ch - imageHeight - DefaultLabelPad,
                         CtxTranslate(st, 0, imageHeight + DefaultLabelPad)))

ImageBlockDraw(i, cw, ch, st) ==
    ImageBlockDrawLabel(i, cw, ch, IF i.W > cw THEN (i.H * cw) \div i.W ELSE i.H,
                        ImageBlockDrawImage(i, cw, CtxPush(CtxPush(st))))

RECURSIVE TileDraw(_, _, _, _, _)
RECURSIVE DrawColumnFrom(_, _, _, _, _, _, _)
RECURSIVE DrawShapeFrom(_, _, _, _, _)
RECURSIVE PaneDraw(_, _, _, _, _)

\* history: Pane id visits tile k of column c, measured as w x h
Visit(st, id, c, k, obj, w, h) ==
    [st EXCEPT !.placed = Append(@, [pane |-> id, col |-> c, row |-> k, obj |-> obj,
                                     w |-> w, h |-> h, at |-> st.ctx.cur])]

\* Pane.DrawShape, inner loop body: ctx.Translate(0, h+rPad) after the tile is drawn
DrawColumnNext(s, h, id, c, column, k, rPad, fuel) ==
    DrawColumnFrom(id, c, column, k + 1, rPad, CtxTranslate(s, 0, h + rPad), fuel)

\* Pane.DrawShape, inner loop body: obj.Draw(ctx, w, h) for the measured size m
DrawMeasured(m, id, c, column, k, rPad, fuel) ==
    DrawColumnNext(TileDraw(column.Objects[k], m.w, m.h,
                            Visit(m.st, id, c, k, column.Objects[k], m.w, m.h), fuel),
                   m.h, id, c, column, k, rPad, fuel)

\* Pane.DrawShape: the inner loop over the tiles of one column from tile k on
DrawColumnFrom(id, c, column, k, rPad, st, fuel) ==
    IF k > Len(column.Objects) \/ st.err # "none"
    THEN st
    ELSE DrawMeasured(TileIntrinsicSize(column.Objects[k], st.panes[id].ColWidth, 0, st, fuel),
                      id, c, column, k, rPad, fuel)

\* Pane.DrawShape, outer loop body: ctx.Pop() after the column is drawn
DrawShapeNext(s, id, shape, c, fuel) == DrawShapeFrom(id, shape, c + 1, CtxPop(s), fuel)

\* Pane.DrawShape: the outer loop from column c on; the source counts the
\* columns from 0 (colCount = c - 1), and rPad is DefaultMinPad
DrawShapeFrom(id, shape, c, st, fuel) ==
    IF c > Len(shape.Columns) \/ st.err # "none"
    THEN st
    ELSE DrawShapeNext(
             DrawColumnFrom(id, c, shape.Columns[c], 1, DefaultMinPad,
                            CtxTranslate(CtxPush(st),
                                         st.panes[id].ColWidth * (c - 1)
                                             + st.panes[id].ColPad * (c - 1), 0),
                            fuel),
             id, shape, c, fuel)

PaneDrawShape(id, shape, st, fuel) == DrawShapeFrom(id, shape, 1, st, fuel)

\* Pane.Draw, else branch after the search returned r
DrawSearched(r, id, fuel) ==
    IF r.st.err # "none"
    THEN r.st
    ELSE PaneDrawShape(id, r.shape, StoreShape(r, id), fuel)

\* variant: Draw searches with the row pad DrawShape draws with
PaneDrawMinPad(id, cw, ch, st, fuel) ==
    IF st.err # "none" THEN st
    ELSE IF fuel = 0 THEN Fail(st, "overflow")
    ELSE IF ~st.panes[id].PlannedShape.isNil
    THEN PaneDrawShape(id, st.panes[id].PlannedShape, st, fuel - 1)
    ELSE [DrawSearched(PaneShape(id, [st EXCEPT !.panes[id].RowPad = DefaultMinPad],
                                 fuel - 1), id, fuel - 1)
             EXCEPT !.panes[id].RowPad = st.panes[id].RowPad]

\* variant: Draw runs the search whether a Shape is stored or not
PaneDrawAlways(id, cw, ch, st, fuel) ==
    IF st.err # "none" THEN st
    ELSE IF fuel = 0 THEN Fail(st, "overflow")
    ELSE DrawSearched(PaneShape(id, st, fuel - 1), id, fuel - 1)

PaneDraw(id, cw, ch, st, fuel) ==
    IF st.err # "none" THEN st
    ELSE IF fuel = 0 THEN Fail(st, "overflow")
    ELSE IF ~st.panes[id].PlannedShape.isNil
    THEN PaneDrawShape(id, st.panes[id].PlannedShape, st, fuel - 1)
    ELSE DrawSearched(PaneShape(id, st, fuel - 1), id, fuel - 1)

TileProxyDraw(t, cw, ch, st, fuel) == TileDraw(t.Object, cw, ch, st, fuel)

\* dispatch of the Drawable interface
TileDraw(t, cw, ch, st, fuel) ==
    IF st.err # "none" THEN st
    ELSE CASE t.kind = "text" -> TextBlockDraw(t, cw, ch, st)
           [] t.kind = "image" -> ImageBlockDraw(t, cw, ch, st)
           [] t.kind = "proxy" -> TileProxyDraw(t, cw, ch, st, fuel)
           [] t.kind = "pane" -> PaneDraw(t.id, cw, ch, st, fuel)

-----------------------------------------------------------------------------
(* Construction *)

NewPane(objects, colWidth, colPad, rowPad) ==
    [Objects |-> objects,
     PlannedShape |-> NilShape,
     ColWidth |-> IF colWidth = 0 THEN DefaultColWidth ELSE colWidth,
     ColPad |-> IF colPad = 0 THEN DefaultColPad ELSE colPad,
     RowPad |-> IF rowPad = 0 THEN DefaultMinPad ELSE rowPad]

NewPaneWithShape(shape, colWidth, colPad, rowPad) ==
    [Objects |-> <<>>,
     PlannedShape |-> shape,
     ColWidth |-> IF colWidth = 0 THEN DefaultColWidth ELSE colWidth,
     ColPad |-> IF colPad = 0 THEN DefaultColPad ELSE colPad,
     RowPad |-> IF rowPad = 0 THEN DefaultMinPad ELSE rowPad]

(* The inputs of the model *)

SeqsUpTo(S, n) == UNION {[1..k -> S] : k \in 0..n}

ImgA == ImageBlock(4, 3, <<>>)          \* 4 x 3 pixels, empty caption
ImgC == ImageBlock(4, 4, <<>>)          \* 4 x 4 pixels, empty caption
Txt == NewTextBlock(<<3, 2, 4>>, TRUE)  \* three words
EmptyTxt == NewTextBlock(<<>>, TRUE)    \* the empty text

LeafTiles == {ImgC, Txt}

\* tile lists with tiles of height 0
ZeroHeightLists == {<<EmptyTxt>>, <<EmptyTxt, EmptyTxt>>, <<EmptyTxt, ImgC>>, <<ImgC, EmptyTxt>>}
ShapeTiles == {Txt, PaneRef(2)}

\* (colWidth, colPad, rowPad) handed to the constructors; 0 asks for the default
ParamSets == {<<0, 0, 0>>, <<6, 2, 1>>}
ShapeParamSets == {<<6, 2, 1>>}

SuppliedShapes ==
    {NilShape} \cup
    {NewShapeWithObjects([i \in DOMAIN cs |-> Column(cs[i])]) :
        cs \in SeqsUpTo(SeqsUpTo(ShapeTiles, MaxColTiles), MaxCols)}

\* a constructor call: what is built, and how
Built(pane, how, shape) == [pane |-> pane, mode |-> how, supplied |-> shape]

RootPanes ==
    {Built(NewPane(objs, ps[1], ps[2], ps[3]), "NewPane", NilShape) :
        objs \in SeqsUpTo(LeafTiles \cup {PaneRef(2)}, MaxTiles) \cup ZeroHeightLists,
        ps \in ParamSets}
    \cup
    {Built(NewPaneWithShape(sh, ps[1], ps[2], ps[3]), "NewPaneWithShape", sh) :
        sh \in SuppliedShapes, ps \in ShapeParamSets}

ChildPanes ==
    {Built(NewPane(<<ImgA, ImgC>>, 6, 2, 1), "NewPane", NilShape),
     Built(NewPane(<<>>, 0, 0, 0), "NewPane", NilShape),
     Built(NewPaneWithShape(NewShapeWithObjects(<<Column(<<ImgA>>), Column(<<>>)>>), 6, 2, 3),
           "NewPaneWithShape", NewShapeWithObjects(<<Column(<<ImgA>>), Column(<<>>)>>))}

\* the tiles a Pane holds, in its list or in its supplied Shape
RECURSIVE ConcatAll(_)
ConcatAll(ss) == IF ss = <<>> THEN <<>> ELSE Head(ss) \o ConcatAll(Tail(ss))

HeldTiles(b) ==
    b.pane.Objects \o ConcatAll([i \in DOMAIN b.supplied.Columns |-> b.supplied.Columns[i].Objects])

HoldsPane(b) == \E i \in DOMAIN HeldTiles(b) : HeldTiles(b)[i].kind = "pane"

NoCall == [op |-> "none", pane |-> 0, a |-> 0, b |-> 0, w |-> 0, h |-> 0]
NoSize == [set |-> FALSE, w |-> 0, h |-> 0]
NoCanvas == [set |-> FALSE]
NoLeaf == [built |-> FALSE]

\* Pane 1 is the root; Pane 2 is the Pane nested in it or, when the root
\* holds no Pane, a second Pane built from the same arguments
Init ==
    \E root \in RootPanes :
    \E child \in (IF HoldsPane(root) THEN ChildPanes ELSE {root}) :
        /\ panes = (1 :> root.pane) @@ (2 :> child.pane)
        /\ mode = (1 :> root.mode) @@ (2 :> child.mode)
        /\ supplied = (1 :> root.supplied) @@ (2 :> child.supplied)
        /\ ctx = NewContext
        /\ err = "none"
        /\ runs = [id \in PaneIds |-> 0]
        /\ first = [id \in PaneIds |-> NoSize]
        /\ placed = <<>>
        /\ last = NoCall
        /\ canvas = NoCanvas
        /\ leaf = NoLeaf

-----------------------------------------------------------------------------
(* The calls *)

\* the constraint arguments of IntrinsicSize and the boxes of Draw
Constraints == {<<0, 0>>, <<5, 9>>}
Boxes == {<<5, 9>>}

State == [panes |-> panes, runs |-> runs, err |-> err, ctx |-> ctx, placed |-> placed]

\* the call returns r: the Panes it leaves and the history of the call
IntrinsicSizeReturns(r, id, expectedWidth, expectedHeight) ==
    /\ panes' = r.st.panes
    /\ runs' = r.st.runs
    /\ err' = r.st.err
    /\ first' = IF first[id].set \/ r.st.err # "none"
                THEN first
                ELSE [first EXCEPT ![id] = [set |-> TRUE, w |-> r.w, h |-> r.h]]
    /\ last' = [op |-> "IntrinsicSize", pane |-> id, a |-> expectedWidth,
                b |-> expectedHeight, w |-> r.w, h |-> r.h]
    /\ ctx' = [r.st.ctx EXCEPT !.ops = <<>>]
    /\ placed' = <<>>
    /\ canvas' = NoCanvas
    /\ UNCHANGED <<mode, supplied, leaf>>

\* w, h := pane.IntrinsicSize(ctx, expectedWidth, expectedHeight); ctx.ops and
\* placed keep the primitives and the visits of the last call only
IntrinsicSize(id, expectedWidth, expectedHeight) ==
    /\ err = "none"
    /\ IntrinsicSizeReturns(PaneIntrinsicSize(id, expectedWidth, expectedHeight, State, MaxDepth),
                            id, expectedWidth, expectedHeight)

\* the call returns in state s
DrawReturns(s, id, cw, ch) ==
    /\ panes' = s.panes
    /\ runs' = s.runs
    /\ err' = s.err
    /\ ctx' = s.ctx
    /\ placed' = s.placed
    /\ last' = [op |-> "Draw", pane |-> id, a |-> cw, b |-> ch, w |-> 0, h |-> 0]
    /\ canvas' = NoCanvas
    /\ UNCHANGED <<mode, supplied, first, leaf>>

\* pane.Draw(ctx, cw, ch)
Draw(id, cw, ch) ==
    /\ err = "none"
    /\ DrawReturns(PaneDraw(id, cw, ch, [State EXCEPT !.ctx.ops = <<>>, !.placed = <<>>],
                            MaxDepth),
                   id, cw, ch)

-----------------------------------------------------------------------------
(* The Scene and the Engine.  The Scene's Main is Pane 1.  The embedded     *)
(* font is always read and parsed, so that Render returns no error.         *)

Main == 1

\* the outer paddings handed to Scene.canvasSize
OuterPads == {Rat(0, 1), Rat(1, 4), Rat(0 - 13, 4)}

\* (MaxCanvasWidth, MaxCanvasHeight) of the Config
Configs == {<<2000, 2000>>, <<40, 50>>, <<100, 30>>}

\* variant: the outer padding is added on one side of each axis only
PaddedOnce(r, outerPad) ==
    [w |-> ToInt(RatAdd(Rat(r.w, 1), outerPad)),
     h |-> ToInt(RatAdd(Rat(r.h, 1), outerPad)),
     st |-> r.st]

\* Scene.canvasSize: return int(w + outerPad*2), int(h + outerPad*2), for the
\* measured size r of s.Main
Padded(r, outerPad) ==
    [w |-> ToInt(RatAdd(Rat(r.w, 1), RatMul(outerPad, Rat(2, 1)))),
     h |-> ToInt(RatAdd(Rat(r.h, 1), RatMul(outerPad, Rat(2, 1)))),
     st |-> r.st]

\* Scene.canvasSize
SceneCanvasSize(outerPad, st, fuel) ==
    Padded(PaneIntrinsicSize(Main, 0, 0, st, fuel),
           IF outerPad.num = 0 THEN Rat(DefaultOuterPad, 1) ELSE outerPad)

\* variant: the height ratio replaces the scale of the width (no math.Min)
FitLastAxis(width, height, MaxCanvasWidth, MaxCanvasHeight) ==
    [Width |-> IF width > MaxCanvasWidth THEN MaxCanvasWidth ELSE width,
     Height |-> IF height > MaxCanvasHeight THEN MaxCanvasHeight ELSE height,
     scale |-> IF height > MaxCanvasHeight THEN Rat(MaxCanvasHeight, height)
               ELSE IF width > MaxCanvasWidth THEN Rat(MaxCanvasWidth, width)
               ELSE Rat(1, 1)]

\* Render: the scale factor and the canvas size that fit the measured
\* (width, height) within the maxima
Fit(width, height, MaxCanvasWidth, MaxCanvasHeight) ==
    LET scale == IF width > MaxCanvasWidth THEN Rat(MaxCanvasWidth, width) ELSE Rat(1, 1)
    IN  [Width |-> IF width > MaxCanvasWidth THEN MaxCanvasWidth ELSE width,
         Height |-> IF height > MaxCanvasHeight THEN MaxCanvasHeight ELSE height,
         scale |-> IF height > MaxCanvasHeight
                   THEN RatMin(scale, Rat(MaxCanvasHeight, height))
                   ELSE scale]

\* ctx.ScaleAbout(sx, sy, 0, 0); every Scale of the program has sx = sy
CtxScaleAbout(st, sx, sy) == CtxScale(st, sx.num, sx.den)

\* Render: the new context, scaled and translated, and the Draw of the Main
\* Pane; m is the measured size and f the fitted canvas.  The Canvas keeps,
\* as history, the measured size, the two scale arguments and the maxima
RenderDraw(f, m, MaxCanvasWidth, MaxCanvasHeight) ==
    [canvas |-> [set |-> TRUE, Width |-> f.Width, Height |-> f.Height,
                 Raw |-> <<>>, measuredW |-> m.w, measuredH |-> m.h,
                 scaleX |-> f.scale, scaleY |-> f.scale,
                 MaxCanvasWidth |-> MaxCanvasWidth, MaxCanvasHeight |-> MaxCanvasHeight],
     st |-> PaneDraw(Main, f.Width, f.Height,
                     CtxTranslate(CtxScaleAbout([m.st EXCEPT !.ctx = NewContext, !.placed = <<>>],
                                                f.scale, f.scale),
                                  DefaultOuterPad, DefaultOuterPad),
                     MaxDepth)]

\* Render, after scene.canvasSize returned m
RenderMeasured(m, MaxCanvasWidth, MaxCanvasHeight) ==
    IF m.st.err # "none"
    THEN [canvas |-> NoCanvas, st |-> m.st]
    ELSE RenderDraw(Fit(m.w, m.h, MaxCanvasWidth, MaxCanvasHeight), m,
                    MaxCanvasWidth, MaxCanvasHeight)

\* the call returns r, the Canvas and the state it leaves; the context
\* Render draws on is its own, and its image is the Raw of the Canvas
RenderReturns(r, MaxCanvasWidth, MaxCanvasHeight) ==
    /\ panes' = r.st.panes
    /\ runs' = r.st.runs
    /\ err' = r.st.err
    /\ ctx' = [ctx EXCEPT !.ops = <<>>]
    /\ placed' = r.st.placed
    /\ canvas' = IF r.st.err = "none"
                 THEN [r.canvas EXCEPT !.Raw = r.st.ctx.ops]
                 ELSE NoCanvas
    /\ last' = [op |-> "Render", pane |-> Main, a |-> MaxCanvasWidth, b |-> MaxCanvasHeight,
                w |-> 0, h |-> 0]
    /\ UNCHANGED <<mode, supplied, first, leaf>>

\* canvas, err := engine.Render(scene), the Config holding the two maxima
Render(MaxCanvasWidth, MaxCanvasHeight) ==
    /\ err = "none"
    /\ RenderReturns(RenderMeasured(SceneCanvasSize(Rat(DefaultOuterPad, 1), State, MaxDepth),
                                    MaxCanvasWidth, MaxCanvasHeight),
                     MaxCanvasWidth, MaxCanvasHeight)

\* the call returns r
CanvasSizeReturns(r, outerPad) ==
    /\ panes' = r.st.panes
    /\ runs' = r.st.runs
    /\ err' = r.st.err
    /\ last' = [op |-> "canvasSize", pane |-> Main, a |-> outerPad.num, b |-> outerPad.den,
                w |-> r.w, h |-> r.h]
    /\ ctx' = [r.st.ctx EXCEPT !.ops = <<>>]
    /\ placed' = <<>>
    /\ canvas' = NoCanvas
    /\ UNCHANGED <<mode, supplied, first, leaf>>

\* w, h := scene.canvasSize(ctx, outerPad)
CanvasSize(outerPad) ==
    /\ err = "none"
    /\ CanvasSizeReturns(SceneCanvasSize(outerPad, State, MaxDepth), outerPad)

Next ==
    \/ \E id \in PaneIds, c \in Constraints : IntrinsicSize(id, c[1], c[2])
    \/ \E id \in PaneIds, c \in Boxes : Draw(id, c[1], c[2])
    \/ \E outerPad \in OuterPads : CanvasSize(outerPad)
    \/ \E c \in Configs : Render(c[1], c[2])

Spec == Init /\ [][Next]_vars

-----------------------------------------------------------------------------
(* Tile trees that break the containment rule: Pane 1 holds itself, or      *)
(* holds Pane 2, which holds Pane 1.                                        *)

CyclicPanes ==
    {<<Built(NewPane(<<ImgC, PaneRef(1)>>, 6, 2, 1), "NewPane", NilShape),
       Built(NewPane(<<ImgA, ImgC>>, 6, 2, 1), "NewPane", NilShape)>>,
     <<Built(NewPane(<<PaneRef(2), ImgC>>, 0, 0, 0), "NewPane", NilShape),
       Built(NewPane(<<Txt, PaneRef(1)>>, 6, 2, 1), "NewPane", NilShape)>>,
     <<Built(NewPane(<<PaneRef(2)>>, 6, 2, 1), "NewPane", NilShape),
       Built(NewPaneWithShape(NewShapeWithObjects(<<Column(<<ImgA, PaneRef(1)>>)>>), 6, 2, 3),
             "NewPaneWithShape", NewShapeWithObjects(<<Column(<<ImgA, PaneRef(1)>>)>>))>>}

CycleInit ==
    \E pair \in CyclicPanes :
        /\ panes = (1 :> pair[1].pane) @@ (2 :> pair[2].pane)
        /\ mode = (1 :> pair[1].mode) @@ (2 :> pair[2].mode)
        /\ supplied = (1 :> pair[1].supplied) @@ (2 :> pair[2].supplied)
        /\ ctx = NewContext
        /\ err = "none"
        /\ runs = [id \in PaneIds |-> 0]
        /\ first = [id \in PaneIds |-> NoSize]
        /\ placed = <<>>
        /\ last = NoCall
        /\ canvas = NoCanvas
        /\ leaf = NoLeaf

TreeInit == Init \/ CycleInit

\* the calls of Spec, on tile trees with and without a cycle
TreeSpec == TreeInit /\ [][Next]_vars

-----------------------------------------------------------------------------
(* The leaf tiles on their own: a constructor call builds a leaf tile, and  *)
(* the tile is then measured and drawn under every constraint.             *)

\* the byte streams handed to NewImageBlock: what image.Decode makes of them
Files ==
    {[ok |-> FALSE, W |-> 0, H |-> 0]} \cup
    {[ok |-> TRUE, W |-> w, H |-> h] : w \in 1..MaxPixels, h \in 1..MaxPixels}

Texts == SeqsUpTo(1..MaxWordW, MaxWords)

NilBlock == [kind |-> "nil"]

\* variant: a failed decode returns no block and no error
NewImageBlockNoError(file, label) ==
    IF ~file.ok
    THEN [block |-> NilBlock, err |-> "nil"]
    ELSE [block |-> ImageBlock(file.W, file.H, label), err |-> "nil"]

NewImageBlock(file, label) ==
    IF ~file.ok
    THEN [block |-> NilBlock, err |-> "image: unknown format"]
    ELSE [block |-> ImageBlock(file.W, file.H, label), err |-> "nil"]

\* the divisions ImageBlock.IntrinsicSize makes for (cw, ch) are exact
Exact(t, cw, ch) ==
    IF t.kind # "image" \/ (cw = 0 /\ ch = 0) THEN TRUE
    ELSE IF ch = 0 THEN cw > t.W \/ (t.H * cw) % t.W = 0
    ELSE IF cw = 0 THEN (t.W * ch) % t.H = 0
    ELSE IF cw * t.H <= ch * t.W THEN (t.H * cw) % t.W = 0
    ELSE (t.W * ch) % t.H = 0

LeafInit ==
    /\ panes = [id \in PaneIds |-> NewPane(<<>>, 0, 0, 0)]
    /\ mode = [id \in PaneIds |-> "NewPane"]
    /\ supplied = [id \in PaneIds |-> NilShape]
    /\ ctx = NewContext
    /\ err = "none"
    /\ runs = [id \in PaneIds |-> 0]
    /\ first = [id \in PaneIds |-> NoSize]
    /\ placed = <<>>
    /\ last = NoCall
    /\ canvas = NoCanvas
    /\ leaf = NoLeaf

\* the constructor returns r
LeafBuilt(r, what, file, label) ==
    /\ leaf' = [built |-> TRUE, block |-> r.block, err |-> r.err]
    /\ last' = [op |-> what, pane |-> 0, a |-> 0, b |-> 0, w |-> 0, h |-> 0,
                file |-> file, label |-> label]
    /\ ctx' = NewContext
    /\ UNCHANGED <<panes, err, runs, mode, supplied, first, placed, canvas>>

\* block, err := NewImageBlock(file, label)
NewImageBlockCall(file, label) ==
    /\ err = "none"
    /\ LeafBuilt(NewImageBlock(file, label), "NewImageBlock", file, label)

\* block := NewTextBlock(text, TextBlockOpts{TextWrap: wrap})
NewTextBlockCall(text, wrap) ==
    /\ err = "none"
    /\ LeafBuilt([block |-> NewTextBlock(text, wrap), err |-> "nil"], "NewTextBlock",
                 [ok |-> FALSE, W |-> 0, H |-> 0], text)

\* the call returns r
LeafIntrinsicSizeReturns(r, expectedWidth, expectedHeight) ==
    /\ last' = [op |-> "IntrinsicSize", pane |-> 0, a |-> expectedWidth,
                b |-> expectedHeight, w |-> r.w, h |-> r.h]
    /\ ctx' = NewContext
    /\ UNCHANGED <<panes, err, runs, mode, supplied, first, placed, canvas, leaf>>

\* w, h := block.IntrinsicSize(ctx, expectedWidth, expectedHeight)
LeafIntrinsicSize(expectedWidth, expectedHeight) ==
    /\ err = "none"
    /\ leaf.built
    /\ leaf.err = "nil"
    /\ Exact(leaf.block, expectedWidth, expectedHeight)
    /\ LeafIntrinsicSizeReturns(
           TileIntrinsicSize(leaf.block, expectedWidth, expectedHeight, State, MaxDepth),
           expectedWidth, expectedHeight)

\* the call returns in state s
LeafDrawReturns(s, cw, ch) ==
    /\ ctx' = s.ctx
    /\ last' = [op |-> "Draw", pane |-> 0, a |-> cw, b |-> ch, w |-> 0, h |-> 0]
    /\ UNCHANGED <<panes, err, runs, mode, supplied, first, placed, canvas, leaf>>

\* block.Draw(ctx, cw, ch) on a new context
LeafDraw(cw, ch) ==
    /\ err = "none"
    /\ leaf.built
    /\ leaf.err = "nil"
    /\ LeafDrawReturns(TileDraw(leaf.block, cw, ch, [State EXCEPT !.ctx = NewContext], MaxDepth),
                       cw, ch)

\* the boxes a leaf tile is drawn in
LeafBoxes == {<<cw, 2 * MaxConstraint>> : cw \in 1..MaxConstraint}

LeafNext ==
    \/ \E file \in Files, label \in Texts : NewImageBlockCall(file, label)
    \/ \E text \in Texts, wrap \in BOOLEAN : NewTextBlockCall(text, wrap)
    \/ \E cw \in 0..MaxConstraint, ch \in 0..MaxConstraint : LeafIntrinsicSize(cw, ch)
    \/ \E c \in LeafBoxes : LeafDraw(c[1], c[2])

LeafSpec == LeafInit /\ [][LeafNext]_vars

-----------------------------------------------------------------------------
(* Properties *)

\* the Pane was built with NewPane and holds the Shape its search returned
Memo(id) == /\ err = "none"
            /\ mode[id] = "NewPane"
            /\ ~panes[id].PlannedShape.isNil

\* the proxies of the Pane's tiles, in the order of its list
ProxiesOf(id) ==
    ProxiesFrom(panes[id].Objects, 1, <<>>, panes[id].ColWidth, State, MaxDepth).proxies

CandidateOf(id, c) == Candidate(panes[id], ProxiesOf(id), c, State, MaxDepth)

\* area*aspect with area = w*h and aspect = max(w/h, h/w), for w, h > 0:
\* w*h*(w/h) = w*w when w >= h, and w*h*(h/w) = h*h otherwise
ClaimScore(w, h) == Max(w * w, h * h)

ScoreOf(id, c) == ClaimScore(CandidateOf(id, c).w, CandidateOf(id, c).h)

PositiveHeights(id) == \A i \in DOMAIN ProxiesOf(id) : ProxiesOf(id)[i].Size.Height > 0

ChosenCount(id) == Len(panes[id].PlannedShape.Columns)

\* C1: the Shape a NewPane Pane of N >= 1 tiles of positive height returns is
\* the candidate of the smallest column count in 1..N of minimal score
\* area*aspect: no candidate scores strictly less, and every candidate of a
\* smaller column count scores strictly more.
C1_SmallestCountOfMinimalScore ==
    \A id \in PaneIds :
        (Memo(id) /\ PositiveHeights(id)) =>
            LET N == Len(panes[id].Objects)
                cs == ChosenCount(id)
            IN  /\ cs \in 1..N
                /\ panes[id].PlannedShape = CandidateOf(id, cs).shape
                /\ \A c \in 1..N : ScoreOf(id, c) >= ScoreOf(id, cs)
                /\ \A c \in 1..(cs - 1) : ScoreOf(id, c) > ScoreOf(id, cs)

\* a returned Shape whose score another, larger column count reaches too
C1_Witness ==
    \E id \in PaneIds :
        /\ Memo(id) /\ PositiveHeights(id)
        /\ \E c \in (ChosenCount(id) + 1)..Len(panes[id].Objects) :
               ScoreOf(id, c) = ScoreOf(id, ChosenCount(id))

\* the columns deriveShape has built from the first k proxies, for c columns
ColumnsAfter(id, c, k) ==
    deriveShapeFrom(NewShape(c).Columns, SubSeq(ProxiesOf(id), 1, k), 1,
                    panes[id].ColWidth, panes[id].RowPad, State, MaxDepth).columns

HeightOf(id, col) ==
    ColumnHeight(col, panes[id].ColWidth, panes[id].RowPad, State, MaxDepth).h

\* tile k goes to column j of the c columns, j being the first column of
\* smallest height at that moment
PlacedAtFirstSmallest(id, c, k, j) ==
    LET before == ColumnsAfter(id, c, k - 1)
        after == ColumnsAfter(id, c, k)
    IN  /\ after = [before EXCEPT ![j].Objects = Append(@, ProxiesOf(id)[k])]
        /\ \A i \in 1..c : HeightOf(id, before[j]) <= HeightOf(id, before[i])
        /\ \A i \in 1..(j - 1) : HeightOf(id, before[i]) > HeightOf(id, before[j])

NonEmptyColumns(shape) == {j \in DOMAIN shape.Columns : shape.Columns[j].Objects # <<>>}

\* C3: the Shape returned for a list of N >= 1 tiles has at most N columns
\* and at most N columns that hold a tile.
C3_AtMostNColumns ==
    \A id \in PaneIds :
        Memo(id) =>
            /\ Len(panes[id].PlannedShape.Columns) <= Len(panes[id].Objects)
            /\ Cardinality(NonEmptyColumns(panes[id].PlannedShape)) <= Len(panes[id].Objects)

\* a returned Shape of exactly N >= 2 columns, all of them holding a tile
C3_Witness ==
    \E id \in PaneIds :
        /\ Memo(id)
        /\ Len(panes[id].Objects) >= 2
        /\ Cardinality(NonEmptyColumns(panes[id].PlannedShape)) = Len(panes[id].Objects)

\* the two Panes were built with NewPane from the same arguments
Twins ==
    /\ mode[1] = "NewPane" /\ mode[2] = "NewPane"
    /\ panes[1].Objects = panes[2].Objects
    /\ panes[1].ColWidth = panes[2].ColWidth
    /\ panes[1].ColPad = panes[2].ColPad
    /\ panes[1].RowPad = panes[2].RowPad

SizeOfShape(id) ==
    LET r == canvasSize(panes[id].PlannedShape, panes[id].ColWidth, panes[id].ColPad,
                        panes[id].RowPad, State, MaxDepth)
    IN  <<r.w, r.h>>

Stored(id) == ~panes[id].PlannedShape.isNil

\* C5: on every Pane the Shape search runs at most once: a call on a Pane
\* that holds no Shape runs it and, when it returns, stores the Shape; a
\* stored Shape is never reassigned, and no call on a Pane that holds one
\* runs the search.
C5_SearchRunsAtMostOnce ==
    [][\A id \in PaneIds :
          /\ runs'[id] <= 1
          /\ Stored(id) =>
                 /\ panes'[id].PlannedShape = panes[id].PlannedShape
                 /\ runs'[id] = runs[id]
          /\ (~Stored(id) /\ last'.pane = id) => runs'[id] = runs[id] + 1
          /\ (~Stored(id) /\ runs'[id] # runs[id] /\ err' = "none") =>
                 ~panes'[id].PlannedShape.isNil
          /\ panes'[id].PlannedShape # panes[id].PlannedShape => runs'[id] = runs[id] + 1
      ]_vars

\* a Pane measured and then drawn, after one search
C5_Witness ==
    /\ Memo(1)
    /\ runs[1] = 1
    /\ first[1].set
    /\ last.op = "Draw" /\ last.pane = 1

\* the visits (column, row, tile) a Draw of the Shape makes, column by column
VisitsOfShape(shape) ==
    ConcatAll([c \in DOMAIN shape.Columns |->
                  [k \in DOMAIN shape.Columns[c].Objects |->
                      <<c, k, shape.Columns[c].Objects[k]>>]])

\* the visits the last call made for the tiles of the Pane
VisitsOf(id) ==
    LET v == SelectSeq(placed, LAMBDA e : e.pane = id)
    IN  [i \in DOMAIN v |-> <<v[i].col, v[i].row, v[i].obj>>]

\* C6: for a Pane built with NewPane every IntrinsicSize call returns the size
\* of the first one, which is the size of the stored Shape, and every Draw
\* visits exactly the columns of that Shape, tile by tile, whether it ran
\* before or after the first IntrinsicSize.
C6_SizingAndDrawingAgree ==
    \A id \in PaneIds :
        (mode[id] = "NewPane" /\ err = "none") =>
            /\ (last.op = "IntrinsicSize" /\ last.pane = id) =>
                   /\ first[id].set
                   /\ <<last.w, last.h>> = <<first[id].w, first[id].h>>
            /\ first[id].set =>
                   /\ Stored(id)
                   /\ SizeOfShape(id) = <<first[id].w, first[id].h>>
            /\ (last.op = "Draw" /\ last.pane = id) =>
                   /\ Stored(id)
                   /\ VisitsOf(id) = VisitsOfShape(panes[id].PlannedShape)

\* a Pane of several tiles in a column, measured and then drawn
C6_Witness ==
    /\ Memo(1)
    /\ first[1].set
    /\ last.op = "Draw" /\ last.pane = 1
    /\ \E c \in DOMAIN panes[1].PlannedShape.Columns :
           Len(panes[1].PlannedShape.Columns[c].Objects) >= 2

\* the Panes as they were built: no Shape stored but the supplied ones
Fresh ==
    [State EXCEPT !.panes = [id \in PaneIds |->
                                [panes[id] EXCEPT !.PlannedShape =
                                    IF mode[id] = "NewPane" THEN NilShape ELSE supplied[id]]]]

\* the size and the Shape of a Pane measured without constraint, first of all
Unconstrained(id) ==
    LET r == PaneIntrinsicSize(id, 0, 0, Fresh, MaxDepth)
    IN  [size |-> <<r.w, r.h>>, shape |-> r.st.panes[id].PlannedShape]

PaneProxiesOf(id) ==
    {VisitsOfShape(panes[id].PlannedShape)[i][3] : i \in DOMAIN VisitsOfShape(panes[id].PlannedShape)}

\* C7: the size IntrinsicSize returns and the Shape it stores do not depend
\* on the constraint arguments: they are those of the unconstrained call; a
\* Pane nested in a parent Pane is a tile of its own size, and its Shape is
\* the same for every column width of the parent.
C7_ConstraintIndependent ==
    err = "none" =>
        /\ last.op = "IntrinsicSize" =>
               /\ <<last.w, last.h>> = Unconstrained(last.pane).size
               /\ panes[last.pane].PlannedShape = Unconstrained(last.pane).shape
        /\ \A id \in PaneIds : Memo(id) =>
               \A t \in PaneProxiesOf(id) :
                   t.Object.kind = "pane" =>
                       /\ <<t.Size.Width, t.Size.Height>> = Unconstrained(t.Object.id).size
                       /\ panes[t.Object.id].PlannedShape = Unconstrained(t.Object.id).shape

\* a Pane measured under a width constraint, holding a nested Pane of
\* another column width
C7_Witness ==
    /\ Memo(1)
    /\ last.op = "IntrinsicSize" /\ last.pane = 1 /\ last.a # 0
    /\ \E t \in PaneProxiesOf(1) :
           /\ t.Object.kind = "pane"
           /\ Memo(t.Object.id)
           /\ panes[t.Object.id].ColWidth # panes[1].ColWidth
           /\ Len(panes[t.Object.id].Objects) >= 2

\* the tiles of the Pane can be measured: measuring it ends without a failure
Measurable(id) ==
    /\ err = "none"
    /\ PaneIntrinsicSize(id, 0, 0, State, MaxDepth).st.err = "none"

\* the height of the tile at the Pane's column width
TileHeight(id, t) == TileIntrinsicSize(t, panes[id].ColWidth, 0, State, MaxDepth).h

\* the height of a column as specified: the tiles' heights plus one row pad
\* between two tiles, and 0 for no tile
ClaimColumnHeight(id, col) ==
    IF Len(col.Objects) = 0
    THEN 0
    ELSE SumSeq([k \in DOMAIN col.Objects |-> TileHeight(id, col.Objects[k])])
         + (Len(col.Objects) - 1) * panes[id].RowPad

\* C8: Column.Height of a column of k tiles is the sum of the tiles' heights
\* plus (k-1)*rowPad for k >= 1, and 0 for k = 0.
C8_ColumnHeight ==
    last.op # "none" =>
        \A id \in PaneIds : (Stored(id) /\ Measurable(id)) =>
            \A c \in DOMAIN panes[id].PlannedShape.Columns :
                HeightOf(id, panes[id].PlannedShape.Columns[c])
                    = ClaimColumnHeight(id, panes[id].PlannedShape.Columns[c])

SetMax(S) == CHOOSE m \in S : \A x \in S : m >= x

\* the canvas size as specified
ClaimCanvasSize(id, shape) ==
    LET c == Len(shape.Columns)
    IN  <<c * panes[id].ColWidth + (c - 1) * panes[id].ColPad,
          SetMax({ClaimColumnHeight(id, shape.Columns[j]) : j \in DOMAIN shape.Columns})>>

\* C9: the canvas size of a Shape of colCount >= 1 columns is
\* colCount*colWidth + (colCount-1)*colPad wide and as high as its highest
\* column, and it is the size IntrinsicSize returns.
C9_CanvasSize ==
    \A id \in PaneIds :
        (Stored(id) /\ Measurable(id) /\ Len(panes[id].PlannedShape.Columns) >= 1) =>
            /\ SizeOfShape(id) = ClaimCanvasSize(id, panes[id].PlannedShape)
            /\ (last.op = "IntrinsicSize" /\ last.pane = id) =>
                   <<last.w, last.h>> = ClaimCanvasSize(id, panes[id].PlannedShape)

\* a measured Pane of two columns of different heights
C9_Witness ==
    /\ err = "none"
    /\ \E id \in PaneIds :
           /\ Stored(id)
           /\ last.op = "IntrinsicSize" /\ last.pane = id
           /\ Len(panes[id].PlannedShape.Columns) = 2
           /\ panes[id].PlannedShape.Columns[1].Objects # <<>>
           /\ panes[id].PlannedShape.Columns[2].Objects # <<>>
           /\ HeightOf(id, panes[id].PlannedShape.Columns[1])
                  # HeightOf(id, panes[id].PlannedShape.Columns[2])

\* the Pane was built with NewPaneWithShape from a Shape
Custom(id) == mode[id] = "NewPaneWithShape" /\ ~supplied[id].isNil

\* C10: a Pane built with NewPaneWithShape from a Shape never runs the
\* search and keeps the supplied Shape; IntrinsicSize returns the size of the
\* supplied columns, and Draw visits the supplied columns in their order.
C10_SuppliedShapeVerbatim ==
    \A id \in PaneIds :
        Custom(id) =>
            /\ runs[id] = 0
            /\ panes[id].PlannedShape = supplied[id]
            /\ (err = "none" /\ last.op = "IntrinsicSize" /\ last.pane = id
                  /\ Len(supplied[id].Columns) >= 1) =>
                   <<last.w, last.h>> = ClaimCanvasSize(id, supplied[id])
            /\ (err = "none" /\ last.op = "Draw" /\ last.pane = id) =>
                   VisitsOf(id) = VisitsOfShape(supplied[id])

\* a drawn Pane with a supplied Shape of two columns that hold tiles
C10_Witness ==
    /\ err = "none"
    /\ Custom(1)
    /\ last.op = "Draw" /\ last.pane = 1
    /\ Len(supplied[1].Columns) = 2
    /\ Len(supplied[1].Columns[1].Objects) = 2
    /\ supplied[1].Columns[2].Objects # <<>>

\* the size of the Main Pane, measured without constraint
MainSize == PaneIntrinsicSize(Main, 0, 0, State, MaxDepth)

RatEq(x, y) == ~x.nan /\ ~y.nan /\ x.num * y.den = y.num * x.den

\* C11: Render applies one scale factor s = min(1, MaxW/W, MaxH/H) to both
\* axes, (W, H) being the measured size of the Main Pane plus the outer
\* padding on every side; the canvas is min(W, MaxW) x min(H, MaxH), within
\* the maxima, and the scaled content fits it: s*W <= width, s*H <= height.
C11_UniformFit ==
    canvas.set =>
        LET W == canvas.measuredW
            H == canvas.measuredH
            MaxW == canvas.MaxCanvasWidth
            MaxH == canvas.MaxCanvasHeight
            s == RatMin(Rat(1, 1), RatMin(Rat(MaxW, W), Rat(MaxH, H)))
        IN  /\ W = MainSize.w + 2 * DefaultOuterPad
            /\ H = MainSize.h + 2 * DefaultOuterPad
            /\ canvas.scaleX = canvas.scaleY
            /\ RatEq(canvas.scaleX, s)
            /\ canvas.Width = Min(W, MaxW)
            /\ canvas.Height = Min(H, MaxH)
            /\ canvas.Width <= MaxW
            /\ canvas.Height <= MaxH
            /\ s.num * W <= canvas.Width * s.den
            /\ s.num * H <= canvas.Height * s.den

\* a rendered Scene that exceeds both maxima, by different ratios
C11_Witness ==
    /\ canvas.set
    /\ canvas.measuredW > canvas.MaxCanvasWidth
    /\ canvas.measuredH > canvas.MaxCanvasHeight
    /\ canvas.MaxCanvasWidth * canvas.measuredH # canvas.MaxCanvasHeight * canvas.measuredW
    /\ Len(canvas.Raw) >= 2

\* n is the fraction x without its fractional part
Truncated(x, n) ==
    IF x.num >= 0
    THEN n * x.den <= x.num /\ x.num < (n + 1) * x.den
    ELSE (n - 1) * x.den < x.num /\ x.num <= n * x.den

\* the size of the Main Pane with the padding pad on both sides of each axis
Footprint(pad) ==
    [w |-> RatAdd(Rat(MainSize.w, 1), Rat(2 * pad.num, pad.den)),
     h |-> RatAdd(Rat(MainSize.h, 1), Rat(2 * pad.num, pad.den))]

\* C12 as stated: Scene.canvasSize returns, for the outer padding it is
\* given, (int(w + 2*outerPad), int(h + 2*outerPad)), (w, h) being the size
\* of the Main Pane.
C12_PaddedFootprint ==
    (last.op = "canvasSize" /\ err = "none") =>
        /\ Truncated(Footprint(Rat(last.a, last.b)).w, last.w)
        /\ Truncated(Footprint(Rat(last.a, last.b)).h, last.h)

\* C12: Scene.canvasSize returns (int(w + 2*pad), int(h + 2*pad)), where pad
\* is the outer padding it is given or, when it is given 0, DefaultOuterPad.
C12_PaddedFootprintOrDefault ==
    (last.op = "canvasSize" /\ err = "none") =>
        LET pad == IF last.a = 0 THEN Rat(DefaultOuterPad, 1) ELSE Rat(last.a, last.b)
        IN  /\ Truncated(Footprint(pad).w, last.w)
            /\ Truncated(Footprint(pad).h, last.h)

\* a footprint whose negative fraction is dropped toward zero
C12_Witness ==
    /\ last.op = "canvasSize" /\ err = "none"
    /\ last.a < 0
    /\ last.w = 0
    /\ Footprint(Rat(last.a, last.b)).w.num < 0

\* the last call measured a leaf tile of the kind
Measured(kind) ==
    /\ leaf.built
    /\ leaf.err = "nil"
    /\ leaf.block.kind = kind
    /\ last.op = "IntrinsicSize"

\* the height of the caption of the ImageBlock at the width
CaptionHeight(i, width) == TextBlockIntrinsicSize(i.Label, width, 0).h

\* C13: ImageBlock.IntrinsicSize never upscales without constraint, under a
\* width constraint and under a box: the width it returns is at most the
\* native width, and the image part of the height (the height less the
\* caption and the label pad) at most the native height; without constraint
\* the width is the native one, and under a width constraint min(cw, w).
C13_NeverUpscales ==
    (Measured("image") /\ (last.b = 0 \/ last.a # 0)) =>
        /\ last.w <= leaf.block.W
        /\ last.h - CaptionHeight(leaf.block, last.w) - DefaultLabelPad <= leaf.block.H
        /\ (last.a = 0 /\ last.b = 0) => last.w = leaf.block.W
        /\ (last.a # 0 /\ last.b = 0) => last.w = Min(last.a, leaf.block.W)

\* C14: for a non-empty text and a constraint width cw > 0, a wrapped
\* TextBlock's IntrinsicSize(cw, 0) returns 0 < width <= cw and a height
\* > 0, the height of its lines, even when a word is wider than cw.
C14_WrappedWithinWidth ==
    (/\ Measured("text")
     /\ leaf.block.TextWrap
     /\ leaf.block.Text # <<>>
     /\ last.a > 0
     /\ last.b = 0) =>
        /\ last.w > 0
        /\ last.w <= last.a
        /\ last.h > 0
        /\ last.h = LinesHeight(Len(WordWrap(leaf.block.Text, last.a)))

\* C16: NewImageBlock returns either an error and no ImageBlock, on input
\* that does not decode, or no error and an ImageBlock holding the decoded
\* image and a caption TextBlock with wrap on, on input that decodes.
C16_BlockOrError ==
    last.op = "NewImageBlock" =>
        IF last.file.ok
        THEN /\ leaf.err = "nil"
             /\ leaf.block.kind = "image"
             /\ leaf.block.W = last.file.W
             /\ leaf.block.H = last.file.H
             /\ leaf.block.Label.kind = "text"
             /\ leaf.block.Label.TextWrap
             /\ leaf.block.Label.Text = last.label
        ELSE /\ leaf.err # "nil"
             /\ leaf.block.kind = "nil"

\* a byte stream that does not decode, handed in with a caption
C16_Witness ==
    /\ last.op = "NewImageBlock"
    /\ ~last.file.ok
    /\ last.label # <<>>
    /\ leaf.built

\* the first primitive of the last Draw wraps the text
DrawnWrapped == ctx.ops # <<>> /\ ctx.ops[1].op = "DrawStringWrapped"

\* C20: a TextBlock is sized in the mode of its wrap flag: with the flag off
\* IntrinsicSize returns the extent of the unwrapped text for every
\* constraint width, and with the flag on and a constraint width the wrapped
\* metrics; Draw renders in the mode of the flag.
C20_ModeFollowsFlag ==
    /\ (Measured("text") /\ ~leaf.block.TextWrap) =>
           /\ last.w = MeasureMultilineString(leaf.block.Text).w
           /\ last.h = MeasureMultilineString(leaf.block.Text).h
    /\ (Measured("text") /\ leaf.block.TextWrap /\ last.a # 0) =>
           /\ last.w = MaxLineWidth(WordWrap(leaf.block.Text, last.a))
           /\ last.h = LinesHeight(Len(WordWrap(leaf.block.Text, last.a)))
    /\ (leaf.built /\ leaf.err = "nil" /\ leaf.block.kind = "text" /\ last.op = "Draw") =>
           (DrawnWrapped <=> leaf.block.TextWrap)

\* the search of the Pane has no candidate of positive height: the Pane was
\* built with NewPane from no tile, or from one tile of height 0
Degenerate(id) ==
    /\ mode[id] = "NewPane"
    /\ \/ panes[id].Objects = <<>>
       \/ /\ Len(panes[id].Objects) = 1
          /\ panes[id].Objects[1].kind = "text"
          /\ TextBlockIntrinsicSize(panes[id].Objects[1], panes[id].ColWidth, 0).h = 0

\* C15: a call that measures or draws a degenerate Pane, directly or through
\* Render, ends in an error outcome, neither in a panic nor as if nothing
\* had happened.
C15_DegenerateIsError ==
    \A id \in PaneIds :
        (Degenerate(id) /\ last.op # "none" /\ last.pane = id) => err = "error"

\* the heights of the tiles above tile k of the column, and the row pads
\* between them and tile k
OffsetOf(id, col, k) ==
    SumSeq([j \in 1..(k - 1) |-> TileHeight(id, col.Objects[j])]) + (k - 1) * panes[id].RowPad

\* C18: Draw places tile k of column c (both counted from 0) at the
\* horizontal offset c*(ColWidth+ColPad) and at the vertical offset (heights
\* of the tiles 0..k-1 of the column) + k*RowPad from the Pane's origin, so
\* that the bottom edge of the last tile of a column is at Column.Height.
C18_DrawOffsets ==
    \A id \in PaneIds :
        (err = "none" /\ last.op = "Draw" /\ last.pane = id) =>
            \A i \in DOMAIN placed :
                placed[i].pane = id =>
                    LET e == placed[i]
                        col == panes[id].PlannedShape.Columns[e.col]
                    IN  /\ e.at.x = (e.col - 1) * (panes[id].ColWidth + panes[id].ColPad)
                        /\ e.at.y = OffsetOf(id, col, e.row)
                        /\ e.row = Len(col.Objects) => e.at.y + e.h = HeightOf(id, col)

\* the tiles a Shape holds, the proxies of the search unwrapped
TilesOfShape(shape) ==
    {IF VisitsOfShape(shape)[i][3].kind = "proxy"
     THEN VisitsOfShape(shape)[i][3].Object
     ELSE VisitsOfShape(shape)[i][3] : i \in DOMAIN VisitsOfShape(shape)}

\* C19: the calls change no layout state but the one-time memoization: the
\* tile list of every Pane, with the texts, wrap flags, images and captions
\* of its tiles, and its ColWidth, ColPad and RowPad stay as they are, and
\* the one field written is PlannedShape of a Pane that held none, with a
\* Shape of the Pane's own tiles.
C19_OnlyMemoization ==
    [][\A id \in PaneIds :
          /\ panes'[id].Objects = panes[id].Objects
          /\ panes'[id].ColWidth = panes[id].ColWidth
          /\ panes'[id].ColPad = panes[id].ColPad
          /\ panes'[id].RowPad = panes[id].RowPad
          /\ panes'[id].PlannedShape # panes[id].PlannedShape =>
                 /\ panes[id].PlannedShape.isNil
                 /\ ~panes'[id].PlannedShape.isNil
                 /\ TilesOfShape(panes'[id].PlannedShape)
                        = {panes[id].Objects[i] : i \in DOMAIN panes[id].Objects}
      ]_vars

\* a Pane and the Pane nested in it, both memoized, measured and then drawn
C19_Witness ==
    /\ Memo(1) /\ Memo(2)
    /\ PaneRef(2) \in TilesOfShape(panes[1].PlannedShape)
    /\ first[1].set
    /\ last.op = "Draw" /\ last.pane = 1

\* the tiles the Pane holds, in its list or in the Shape it was built with
HeldBy(id) == HeldTiles([pane |-> panes[id], supplied |-> supplied[id]])

\* the Panes the Pane holds as tiles
ChildrenOf(id) == {HeldBy(id)[i].id : i \in {k \in DOMAIN HeldBy(id) : HeldBy(id)[k].kind = "pane"}}

\* the Panes below the Pane in the containment relation
Below(id) == ChildrenOf(id) \cup UNION {ChildrenOf(j) : j \in ChildrenOf(id)}

Cyclic(id) == id \in Below(id)

TreeOf(id) == {id} \cup Below(id)

\* the Pane holds tiles, and its leaf tiles have a positive height
Proper(id) ==
    /\ HeldBy(id) # <<>>
    /\ \A i \in DOMAIN HeldBy(id) :
           \/ HeldBy(id)[i].kind = "pane"
           \/ /\ HeldBy(id)[i].kind = "text"
              /\ TextBlockIntrinsicSize(HeldBy(id)[i], panes[id].ColWidth, 0).h > 0
           \/ /\ HeldBy(id)[i].kind = "image"
              /\ ImageBlockIntrinsicSize(HeldBy(id)[i], panes[id].ColWidth, 0).h > 0

\* C17: on a tile tree without a cycle, of Panes that hold tiles of positive
\* height, IntrinsicSize on the root returns and leaves every Pane of the
\* tree built with NewPane with a stored Shape; on a Pane built with NewPane
\* that holds itself, directly or through another Pane, it never returns.
C17_TerminatesUnlessCyclic ==
    \A id \in PaneIds :
        (last.op = "IntrinsicSize" /\ last.pane = id /\ \A j \in TreeOf(id) : Proper(j)) =>
            /\ (\A j \in TreeOf(id) : ~Cyclic(j)) =>
                   /\ err = "none"
                   /\ \A j \in TreeOf(id) : mode[j] = "NewPane" => Stored(j)
            /\ (mode[id] = "NewPane" /\ Cyclic(id)) => err = "overflow"

\* the measurement of a Pane that holds itself through another Pane
C17_Witness ==
    /\ last.op = "IntrinsicSize" /\ last.pane = 1
    /\ mode[1] = "NewPane"
    /\ Cyclic(1)
    /\ 1 \notin ChildrenOf(1)
    /\ Proper(1) /\ Proper(2)
    /\ err = "overflow"

\* the tiles of t that f assigns to column j, in the order of t
Picked(t, f, j) ==
    LET idx == {i \in DOMAIN t : f[i] = j}
    IN  [k \in 1..Cardinality(idx) |->
            t[CHOOSE i \in idx : Cardinality({m \in idx : m < i}) = k - 1]]

\* every tile of t is in exactly one of the columns, once, and every column
\* holds its tiles in the order of t
OrderPreservingPartition(columns, t) ==
    \E f \in [DOMAIN t -> DOMAIN columns] :
        \A j \in DOMAIN columns : columns[j].Objects = Picked(t, f, j)

\* the proxies t stand for the tiles of the Pane, one each, in list order
ProxiesInListOrder(id, t) ==
    /\ Len(t) = Len(panes[id].Objects)
    /\ \A i \in DOMAIN t : t[i].kind = "proxy" /\ t[i].Object = panes[id].Objects[i]

\* the candidate Shape of c columns is an order-preserving partition of t
CandidatePartitions(shape, c, t) ==
    /\ Len(shape.Columns) = c
    /\ OrderPreservingPartition(shape.Columns, t)

\* the candidates built from the proxies t of the Pane, and the Shape the
\* Pane holds, are order-preserving partitions of t
PartitionsOf(id, t) ==
    /\ ProxiesInListOrder(id, t)
    /\ \A c \in 1..Len(panes[id].Objects) :
           CandidatePartitions(Candidate(panes[id], t, c, State, MaxDepth).shape, c, t)
    /\ OrderPreservingPartition(panes[id].PlannedShape.Columns, t)

\* C21: every candidate deriveShape builds for a Pane of N tiles, and the
\* Shape Pane.Shape returns, is an order-preserving partition of the tile
\* list: the proxies stand for the N tiles in list order, every one of them
\* is in exactly one column exactly once, and every column keeps the order
\* of the list.
C21_OrderPreservingPartition ==
    \A id \in PaneIds : Memo(id) => PartitionsOf(id, ProxiesOf(id))

\* a returned Shape of two columns, one of them holding two tiles that are
\* not next to each other in the list
C21_Witness ==
    \E id \in PaneIds :
        /\ Memo(id)
        /\ Len(panes[id].Objects) = 3
        /\ Len(panes[id].PlannedShape.Columns) = 2
        /\ panes[id].PlannedShape.Columns[1].Objects
               = <<ProxiesOf(id)[1], ProxiesOf(id)[3]>>
        /\ panes[id].PlannedShape.Columns[2].Objects = <<ProxiesOf(id)[2]>>

\* the columns deriveShape builds from the proxies t for c columns and the
\* row pad rp
DerivedFrom(id, t, c, rp) ==
    deriveShapeFrom(NewShape(c).Columns, t, 1, panes[id].ColWidth, rp, State, MaxDepth).columns

DerivedWith(id, c, rp) == DerivedFrom(id, ProxiesOf(id), c, rp)

\* Column.Height of the column for the row pad rp
HeightWith(id, col, rp) == ColumnHeight(col, panes[id].ColWidth, rp, State, MaxDepth).h

HeightsWith(id, columns, rp) == [j \in DOMAIN columns |-> HeightWith(id, columns[j], rp)]

TileHeights(t) == {t[i].Size.Height : i \in DOMAIN t}

LargestTileHeight(id) == SetMax(TileHeights(ProxiesOf(id)))

\* no column that holds a tile is higher than another column, the heights
\* being hs, by more than most
Balanced(hs, columns, most) ==
    \A i, j \in DOMAIN columns : columns[i].Objects # <<>> => hs[i] - hs[j] <= most

\* the columns built with row pad rp from tiles of height largest at most
\* are balanced, and for a row pad > 0 every one of them holds a tile
BalancedOn(id, columns, rp, largest) ==
    /\ Balanced(HeightsWith(id, columns, rp), columns, largest + rp)
    /\ rp > 0 => \A j \in DOMAIN columns : columns[j].Objects # <<>>

\* the row pads the placement is run with: none, and the Pane's own
BalanceRowPads(id) == {0, panes[id].RowPad}

BalancedFor(id, t) ==
    (\A h \in TileHeights(t) : h >= 0) =>
        \A rp \in BalanceRowPads(id) : \A c \in 1..Len(t) :
            rp >= 0 => BalancedOn(id, DerivedFrom(id, t, c, rp), rp, SetMax(TileHeights(t)))

\* C22: for every column count c in 1..N, tile heights >= 0 and a row pad
\* >= 0, after deriveShape no column that holds a tile exceeds the height
\* (Column.Height) of another column by more than the largest tile height
\* plus the row pad, and for a row pad > 0 no column is left without a tile.
C22_GreedyBalanced ==
    \A id \in PaneIds : Memo(id) => BalancedFor(id, ProxiesOf(id))

\* a placement on two columns that ends with the first column higher than
\* the second by exactly the largest tile height plus the row pad
C22_Witness ==
    \E id \in PaneIds :
        /\ Memo(id)
        /\ Len(panes[id].Objects) = 3
        /\ panes[id].RowPad > 0
        /\ LET columns == DerivedWith(id, 2, panes[id].RowPad)
           IN  /\ Len(columns[1].Objects) = 2
               /\ Len(columns[2].Objects) = 1
               /\ HeightWith(id, columns[1], panes[id].RowPad)
                      - HeightWith(id, columns[2], panes[id].RowPad)
                      = LargestTileHeight(id) + panes[id].RowPad

\* the contexts a Draw is entered with: a new one, and one that is
\* translated and scaled and holds a saved transform
EntryContexts ==
    {NewContext,
     [stack |-> <<Identity>>, cur |-> [x |-> 7, y |-> 5, sn |-> 2, sd |-> 1], ops |-> <<>>]}

Entered(c) == [State EXCEPT !.ctx = c, !.placed = <<>>]

\* the Draw that was entered with context c returned in state s with the
\* saved transforms and the current transform of c
Neutral(s, c) == s.err = "none" => (s.ctx.stack = c.stack /\ s.ctx.cur = c.cur)

\* the ImageBlocks the Panes hold
ImagesHeld ==
    UNION {{HeldBy(id)[k] : k \in {m \in DOMAIN HeldBy(id) : HeldBy(id)[m].kind = "image"}} :
              id \in PaneIds}

\* the widths an ImageBlock is drawn in, narrower and wider than the image;
\* the scaled image height is a whole number
ImageWidths(i) == {cw \in {2, 5} : i.W <= cw \/ (i.H * cw) % i.W = 0}

\* C23: drawing is transform-neutral.  When Pane.Draw returns, the context
\* has the saved transforms and the current transform it had at entry, on
\* every tile tree of TextBlocks, ImageBlocks, nested Panes and proxies and
\* for an entry context that is new or translated, scaled and one Push deep;
\* the same holds when ImageBlock.Draw returns, whether it scales the image
\* or not, and ImageBlock.Draw always returns.  Every Push is so matched by
\* one Pop, and no Pop meets an empty stack.
C23_DrawTransformNeutral ==
    /\ (last.op = "Draw" /\ err = "none") =>
           (ctx.stack = NewContext.stack /\ ctx.cur = NewContext.cur)
    /\ err = "none" =>
           \A c \in EntryContexts :
               /\ \A id \in PaneIds : \A b \in Boxes :
                      Neutral(PaneDraw(id, b[1], b[2], Entered(c), MaxDepth), c)
               /\ \A i \in ImagesHeld : \A cw \in ImageWidths(i) :
                      /\ ImageBlockDraw(i, cw, 9, Entered(c)).err = "none"
                      /\ Neutral(ImageBlockDraw(i, cw, 9, Entered(c)), c)

\* a Draw has returned that drew an image of a nested Pane four Pushes deep
\* and away from the origin, and further primitives after it; a Pane holds
\* an image that is scaled down when drawn two wide
C23_Witness ==
    /\ last.op = "Draw" /\ err = "none"
    /\ \E k \in DOMAIN ctx.ops :
           /\ ctx.ops[k].op = "DrawImageAnchored"
           /\ ctx.ops[k].depth >= 4
           /\ ctx.ops[k].at # Identity
           /\ k + 1 < Len(ctx.ops)
    /\ \E i \in ImagesHeld :
           /\ i.W > 2
           /\ 2 \in ImageWidths(i)
           /\ \E k \in DOMAIN ImageBlockDraw(i, 2, 9, Entered(NewContext)).ctx.ops :
                  ImageBlockDraw(i, 2, 9, Entered(NewContext)).ctx.ops[k].at.sd = 2

====
